---- MODULE Spec2Model ----
(***************************************************************************)
(* Model of .ai-gov/tools/graph-generator.py: the CodeGraphGenerator       *)
(* (find_files, extract_python_nodes, generate, get_statistics) and main.  *)
(*                                                                         *)
(* A source tree is a sequence of directory entries in the order rglob     *)
(* yields them.  A file's content is what the tree-sitter queries see of   *)
(* it: one record per source line, which is a class definition, a function *)
(* definition, an import or nothing; ok = FALSE marks a capture whose      *)
(* handling raises (the name bytes do not decode, the capture cannot be    *)
(* unpacked).  A file that is not readable raises in read_bytes.           *)
(***************************************************************************)
EXTENDS Integers, Sequences, FiniteSets, TLC

VARIABLES
    tree,       \* the source tree under root_path (never written by the program)
    request,    \* sys.argv[1] as main saw it; "" before a call, "<none>" when absent
    mode,       \* "main": run through main(); "api": generate() called directly
    pc,         \* "start" | "usage" | "aborted" | "loop" | "returned" | "stats" | "saved"
    language,   \* self.language
    nodes,      \* self.nodes
    edges,      \* self.edges
    patterns,   \* file_patterns of the current generate call
    files,      \* generate's local `files`
    idx,        \* position of the for loop over files (1-based)
    stage,      \* position inside the try block of the current file
    pos,        \* line (1-based index into the content) of the capture at hand
    reads,      \* number of read_bytes calls made so far
    stderr,     \* paths reported by the except clause, in order
    results,    \* the dictionaries returned by generate, one per call
    stats,      \* what get_statistics returned last (<< >> before the first call)
    output,     \* the graphs written to .ai-gov/code-graph.json
    clock       \* datetime.now()

vars == <<tree, request, mode, pc, language, nodes, edges, patterns, files, idx,
          stage, pos, reads, stderr, results, stats, output, clock>>

(***************************************************************************)
(* Bounds                                                                  *)
(***************************************************************************)
MaxPatterns == 2    \* longest file_patterns list a direct caller passes

MaxCalls == 2       \* generate calls on one CodeGraphGenerator (SpecRerun)

\* Program constant: the [:5] of get_statistics.
TopN == 5

Min(a, b) == IF a < b THEN a ELSE b

(***************************************************************************)
(* The source tree                                                         *)
(***************************************************************************)
Line(kind, name, ok) == [kind |-> kind, name |-> name, ok |-> ok, col |-> 0]

Content(readable, lines) == [readable |-> readable, lines |-> lines]

\* The contents a Python file of the tree may have.
Contents ==
    { Content(FALSE, << >>),
      Content(TRUE, << >>),
      Content(TRUE, << Line("class", "K", TRUE), Line("def", "f", TRUE) >>),
      Content(TRUE, << Line("import", "os", TRUE), Line("class", "K", TRUE) >>),
      Content(TRUE, << Line("def", "f", TRUE), Line("def", "f", TRUE) >>),
      Content(TRUE, << Line("class", "K", TRUE), Line("def", "f", FALSE) >>),
      Content(TRUE, << Line("class", "K", FALSE), Line("def", "f", TRUE) >>),
      Content(TRUE, << Line("def", "f", TRUE), Line("import", "os", FALSE) >>),
      Content(TRUE, << Line("import", "os", TRUE), Line("import", "sys", TRUE) >>) }

Entry(parts, stem, ext, is_file, content) ==
    [parts |-> parts, name |-> parts[Len(parts)], stem |-> stem, ext |-> ext,
     is_file |-> is_file, content |-> content]

\* root_path holds a.py, b.py, a directory pkg.py, venv/c.py and m.go.
Trees ==
    { << Entry(<<"a.py">>, "a", "py", TRUE, ca),
         Entry(<<"b.py">>, "b", "py", TRUE, cb),
         Entry(<<"pkg.py">>, "pkg", "py", FALSE, Content(FALSE, << >>)),
         Entry(<<"venv", "c.py">>, "c", "py", TRUE,
               Content(TRUE, << Line("class", "K", TRUE) >>)),
         Entry(<<"m.go">>, "m", "go", TRUE, Content(TRUE, << >>)) >>
      : ca \in Contents, cb \in Contents }

(***************************************************************************)
(* Glob patterns: "**/<stem>.<ext>" with "*" for either part               *)
(***************************************************************************)
Pattern(stem, ext) == [stem |-> stem, ext |-> ext]

Matches(pattern, e) ==
    /\ pattern.stem \in {"*", e.stem}
    /\ pattern.ext \in {"*", e.ext}

\* Faulty variant: a pattern set for a language that has no extractor.
patterns_map_extra ==
    [l \in {"python", "javascript", "typescript", "go", "rust", "java", "cobol"} |->
        CASE l = "python" -> << Pattern("*", "py") >>
          [] l = "javascript" -> << Pattern("*", "js"), Pattern("*", "jsx") >>
          [] l = "typescript" -> << Pattern("*", "ts"), Pattern("*", "tsx") >>
          [] l = "go" -> << Pattern("*", "go") >>
          [] l = "rust" -> << Pattern("*", "rs") >>
          [] l = "java" -> << Pattern("*", "java") >>
          [] l = "cobol" -> << Pattern("*", "py") >>]

patterns_map ==
    [l \in {"python", "javascript", "typescript", "go", "rust", "java"} |->
        CASE l = "python" -> << Pattern("*", "py") >>
          [] l = "javascript" -> << Pattern("*", "js"), Pattern("*", "jsx") >>
          [] l = "typescript" -> << Pattern("*", "ts"), Pattern("*", "tsx") >>
          [] l = "go" -> << Pattern("*", "go") >>
          [] l = "rust" -> << Pattern("*", "rs") >>
          [] l = "java" -> << Pattern("*", "java") >>]

\* What callers pass.
ArgvLanguages == {"python", "go", "javascript", "cobol"}

ApiLanguages == {"python", "go"}

ApiPatterns == {Pattern("*", "py"), Pattern("a", "*"), Pattern("b", "*")}

PatternLists == UNION {[1..n -> ApiPatterns] : n \in 0..MaxPatterns}

(***************************************************************************)
(* Graph model                                                             *)
(***************************************************************************)
Node(id, type, name, path, location, metadata) ==
    [id |-> id, type |-> type, name |-> name, path |-> path,
     location |-> location, metadata |-> metadata]

Edge(source, target, type) == [source |-> source, target |-> target, type |-> type]

\* A metadata dict: the keys it holds and their values.
Metadata(keys, lang, imports) == [keys |-> keys, language |-> lang, imports |-> imports]

\* The digest is injective on its input string, and the string
\* type:path:name:line determines the four parts; the id is modelled by them.
generate_id(type, path, name, line) == <<type, path, name, line>>

exclude_patterns ==
    {"node_modules", "venv", "dist", "build", ".git", "__pycache__",
     ".pytest_cache", "target", ".idea"}

should_exclude(parts) == \E i \in 1..Len(parts) : parts[i] \in exclude_patterns

rglob(tr, pattern) == SelectSeq(tr, LAMBDA e : Matches(pattern, e))

RECURSIVE find_files_from(_, _, _)
find_files_from(tr, pats, k) ==
    IF k > Len(pats) THEN << >>
    ELSE SelectSeq(rglob(tr, pats[k]),
                   LAMBDA e : e.is_file /\ ~should_exclude(e.parts))
         \o find_files_from(tr, pats, k + 1)

find_files(tr, pats) == find_files_from(tr, pats, 1)

(***************************************************************************)
(* extract_python_nodes, one capture at a time                             *)
(***************************************************************************)
file_id(f) == generate_id("file", f.parts, f.name, 0)

FileNode(lang, f) ==
    Node(file_id(f), "file", f.name, f.parts, [line |-> 0, column |-> 0],
         Metadata({"language"}, lang, << >>))

\* start_point[0] of the capture on line i is i - 1; location.line is 1-based.
class_id(f, i) == generate_id("class", f.parts, f.content.lines[i].name, i - 1)

\* Faulty variant: the node's id is taken from the 1-based line.
ClassNodeLineId(f, i) ==
    Node(generate_id("class", f.parts, f.content.lines[i].name, i), "class",
         f.content.lines[i].name, f.parts,
         [line |-> (i - 1) + 1, column |-> f.content.lines[i].col],
         Metadata({}, "", << >>))

ClassNode(f, i) ==
    Node(class_id(f, i), "class", f.content.lines[i].name, f.parts,
         [line |-> (i - 1) + 1, column |-> f.content.lines[i].col],
         Metadata({}, "", << >>))

func_id(f, i) == generate_id("function", f.parts, f.content.lines[i].name, i - 1)

FunctionNode(f, i) ==
    Node(func_id(f, i), "function", f.content.lines[i].name, f.parts,
         [line |-> (i - 1) + 1, column |-> f.content.lines[i].col],
         Metadata({}, "", << >>))

\* The captures of one query come in document order.
FirstFrom(f, kind, from) ==
    LET S == {i \in from..Len(f.content.lines) : f.content.lines[i].kind = kind}
    IN  IF S = {} THEN 0 ELSE CHOOSE i \in S : \A j \in S : i <= j

\* Where extract_python_nodes goes on after the capture on line i of a pass:
\* the next class capture, else the first function capture, else the imports.
NextPoint(f, pass, i) ==
    LET c == IF pass = "classes" THEN FirstFrom(f, "class", i + 1) ELSE 0
        d == IF pass = "classes" THEN FirstFrom(f, "def", 1)
             ELSE FirstFrom(f, "def", i + 1)
    IN  IF c # 0 THEN <<"classes", c>>
        ELSE IF d # 0 THEN <<"functions", d>>
        ELSE <<"imports", 0>>

ImportLines(f) == SelectSeq(f.content.lines, LAMBDA l : l.kind = "import")

\* The list `imports`, when every import name decodes.
collect_imports(f) == [k \in 1..Len(ImportLines(f)) |-> ImportLines(f)[k].name]

imports_raise(f) == \E k \in 1..Len(ImportLines(f)) : ~ImportLines(f)[k].ok

\* Faulty variant: the imports go to the first file node of the list.
attach_imports_first_file(ns, fid, imports) ==
    LET S == {k \in 1..Len(ns) : ns[k].type = "file"}
    IN  IF S = {} THEN ns
        ELSE LET k == CHOOSE k \in S : \A j \in S : k <= j
             IN  [ns EXCEPT ![k].metadata =
                     Metadata(@.keys \cup {"imports"}, @.language, imports)]

\* Faulty variant: the metadata dict is replaced, not extended.
attach_imports_replace(ns, fid, imports) ==
    LET S == {k \in 1..Len(ns) : ns[k].id = fid}
    IN  IF S = {} THEN ns
        ELSE LET k == CHOOSE k \in S : \A j \in S : k <= j
             IN  [ns EXCEPT ![k].metadata = Metadata({"imports"}, "", imports)]

\* for node in self.nodes: if node.id == file_id: node.metadata['imports'] = ...
attach_imports(ns, fid, imports) ==
    LET S == {k \in 1..Len(ns) : ns[k].id = fid}
    IN  IF S = {} THEN ns
        ELSE LET k == CHOOSE k \in S : \A j \in S : k <= j
             IN  [ns EXCEPT ![k].metadata =
                     Metadata(@.keys \cup {"imports"}, @.language, imports)]

\* The outcome of one step of the try block: the lists, where the block
\* stands, and whether it goes on, is through with the file, or raised.
Outcome(ns, es, st, i, status) ==
    [nodes |-> ns, edges |-> es, stage |-> st, pos |-> i, status |-> status]

\* content = file_path.read_bytes(); tree = parse(content); and, for
\* python, extract_python_nodes up to the appended file node.
read_parse(ns, es, lang, f) ==
    IF ~f.content.readable THEN Outcome(ns, es, "read", 0, "raised")
    ELSE IF lang # "python" THEN Outcome(ns, es, "read", 0, "done")
    ELSE Outcome(Append(ns, FileNode(lang, f)), es,
                 NextPoint(f, "classes", 0)[1], NextPoint(f, "classes", 0)[2], "go")

extract_class(ns, es, f, i) ==
    IF ~f.content.lines[i].ok THEN Outcome(ns, es, "read", 0, "raised")
    ELSE Outcome(Append(ns, ClassNode(f, i)), es, "class_edge", i, "go")

append_class_edge(ns, es, f, i) ==
    Outcome(ns, Append(es, Edge(file_id(f), class_id(f, i), "contains")),
            NextPoint(f, "classes", i)[1], NextPoint(f, "classes", i)[2], "go")

extract_function(ns, es, f, i) ==
    IF ~f.content.lines[i].ok THEN Outcome(ns, es, "read", 0, "raised")
    ELSE Outcome(Append(ns, FunctionNode(f, i)), es, "function_edge", i, "go")

append_function_edge(ns, es, f, i) ==
    Outcome(ns, Append(es, Edge(file_id(f), func_id(f, i), "contains")),
            NextPoint(f, "functions", i)[1], NextPoint(f, "functions", i)[2], "go")

extract_imports(ns, es, f) ==
    IF imports_raise(f) THEN Outcome(ns, es, "read", 0, "raised")
    ELSE IF collect_imports(f) # << >>
         THEN Outcome(attach_imports(ns, file_id(f), collect_imports(f)), es,
                      "read", 0, "done")
    ELSE Outcome(ns, es, "read", 0, "done")

(***************************************************************************)
(* get_statistics                                                          *)
(***************************************************************************)
\* d[key] = d.get(key, 0) + 1 on a dict kept as its items in insertion order.
Bump(d, key) ==
    IF \E k \in 1..Len(d) : d[k][1] = key
    THEN [d EXCEPT ![CHOOSE k \in 1..Len(d) : d[k][1] = key] = <<key, @[2] + 1>>]
    ELSE Append(d, <<key, 1>>)

RECURSIVE connectivity(_, _)
connectivity(es, k) ==
    IF k = 0 THEN << >>
    ELSE Bump(Bump(connectivity(es, k - 1), es[k].source), es[k].target)

\* Faulty variant: an item goes in front of its equals (an unstable sort).
InsertDescFront(s, x) ==
    LET n == Cardinality({k \in 1..Len(s) : s[k][2] > x[2]})
    IN  SubSeq(s, 1, n) \o <<x>> \o SubSeq(s, n + 1, Len(s))

\* Insert item x into a list sorted by count descending, behind its equals.
InsertDesc(s, x) ==
    LET n == Cardinality({k \in 1..Len(s) : s[k][2] >= x[2]})
    IN  SubSeq(s, 1, n) \o <<x>> \o SubSeq(s, n + 1, Len(s))

\* sorted(items, key=lambda x: x[1], reverse=True): a stable sort.
RECURSIVE sorted_desc(_, _)
sorted_desc(items, k) ==
    IF k = 0 THEN << >> ELSE InsertDesc(sorted_desc(items, k - 1), items[k])

top_nodes(es) ==
    LET s == sorted_desc(connectivity(es, Len(es)), Len(connectivity(es, Len(es))))
    IN  SubSeq(s, 1, Min(TopN, Len(s)))

\* next((n for n in self.nodes if n.id == node_id), None)
first_node(ns, id) ==
    LET S == {k \in 1..Len(ns) : ns[k].id = id}
    IN  IF S = {} THEN 0 ELSE CHOOSE k \in S : \A j \in S : k <= j

top_connected(ns, es) ==
    LET found == SelectSeq(top_nodes(es), LAMBDA x : first_node(ns, x[1]) # 0)
    IN  [k \in 1..Len(found) |->
            [name |-> ns[first_node(ns, found[k][1])].name,
             type |-> ns[first_node(ns, found[k][1])].type,
             path |-> ns[first_node(ns, found[k][1])].path,
             connections |-> found[k][2]]]

histogram(s) ==
    [t \in {s[k].type : k \in 1..Len(s)} |->
        Cardinality({k \in 1..Len(s) : s[k].type = t})]

get_statistics(ns, es) ==
    [node_types |-> histogram(ns), edge_types |-> histogram(es),
     top_connected |-> top_connected(ns, es)]

(***************************************************************************)
(* generate and main                                                       *)
(***************************************************************************)
\* Faulty variant: files_processed counts the file nodes.
graph_dict_file_nodes(ns, es, lang, fs, now) ==
    [nodes |-> ns, edges |-> es,
     metadata |-> [generated |-> now, language |-> lang,
                   files_processed |->
                       Len(SelectSeq(ns, LAMBDA n : n.type = "file")),
                   node_count |-> Len(ns),
                   edge_count |-> Len(es)]]

graph_dict(ns, es, lang, fs, now) ==
    [nodes |-> ns, edges |-> es,
     metadata |-> [generated |-> now, language |-> lang,
                   files_processed |-> Len(fs), node_count |-> Len(ns),
                   edge_count |-> Len(es)]]

Init ==
    /\ tree \in Trees
    /\ request = ""
    /\ mode = ""
    /\ pc = "start"
    /\ language = ""
    /\ nodes = << >>
    /\ edges = << >>
    /\ patterns = << >>
    /\ files = << >>
    /\ idx = 1
    /\ stage = "read"
    /\ pos = 0
    /\ reads = 0
    /\ stderr = << >>
    /\ results = << >>
    /\ stats = << >>
    /\ output = << >>
    /\ clock = 0

\* files = self.find_files(file_patterns), and the loop starts.
BeginGenerate(pats) ==
    /\ patterns' = pats
    /\ files' = find_files(tree, pats)
    /\ idx' = 1
    /\ stage' = "read"
    /\ pos' = 0
    /\ pc' = "loop"

\* main with no language argument: usage, exit(1).
MainUsage ==
    /\ pc = "start"
    /\ request' = "<none>"
    /\ mode' = "main"
    /\ pc' = "usage"
    /\ UNCHANGED <<tree, language, nodes, edges, patterns, files, idx, stage, pos,
                   reads, stderr, results, stats, output, clock>>

\* main with a language that patterns_map does not hold: error, exit(1).
MainUnsupported ==
    /\ pc = "start"
    /\ \E l \in ArgvLanguages :
        /\ l \notin DOMAIN patterns_map
        /\ request' = l
    /\ mode' = "main"
    /\ pc' = "aborted"
    /\ UNCHANGED <<tree, language, nodes, edges, patterns, files, idx, stage, pos,
                   reads, stderr, results, stats, output, clock>>

\* main with a supported language: the generator is built, generate is called.
MainRun ==
    /\ pc = "start"
    /\ \E l \in ArgvLanguages :
        /\ l \in DOMAIN patterns_map
        /\ request' = l
        /\ language' = l
        /\ BeginGenerate(patterns_map[l])
    /\ mode' = "main"
    /\ UNCHANGED <<tree, nodes, edges, reads, stderr, results, stats, output, clock>>

\* A caller builds a CodeGraphGenerator and calls generate(file_patterns).
ApiGenerate ==
    /\ pc = "start"
    /\ \E l \in ApiLanguages, pats \in PatternLists :
        /\ language' = l
        /\ BeginGenerate(pats)
    /\ mode' = "api"
    /\ UNCHANGED <<tree, request, nodes, edges, reads, stderr, results, stats,
                   output, clock>>

\* The step's outcome becomes the state; a raise is caught and reported, and
\* the loop goes to the next file.
Take(r, f) ==
    /\ nodes' = r.nodes
    /\ edges' = r.edges
    /\ stage' = r.stage
    /\ pos' = r.pos
    /\ idx' = IF r.status = "go" THEN idx ELSE idx + 1
    /\ stderr' = IF r.status = "raised" THEN Append(stderr, f.parts) ELSE stderr

InLoop == pc = "loop" /\ idx <= Len(files)

ReadParse ==
    /\ InLoop
    /\ stage = "read"
    /\ Take(read_parse(nodes, edges, language, files[idx]), files[idx])
    /\ reads' = reads + 1
    /\ UNCHANGED <<tree, request, mode, pc, language, patterns, files, results,
                   stats, output, clock>>

ExtractClass ==
    /\ InLoop
    /\ stage = "classes"
    /\ Take(extract_class(nodes, edges, files[idx], pos), files[idx])
    /\ UNCHANGED <<tree, request, mode, pc, language, patterns, files, reads,
                   results, stats, output, clock>>

AppendClassEdge ==
    /\ InLoop
    /\ stage = "class_edge"
    /\ Take(append_class_edge(nodes, edges, files[idx], pos), files[idx])
    /\ UNCHANGED <<tree, request, mode, pc, language, patterns, files, reads,
                   results, stats, output, clock>>

ExtractFunction ==
    /\ InLoop
    /\ stage = "functions"
    /\ Take(extract_function(nodes, edges, files[idx], pos), files[idx])
    /\ UNCHANGED <<tree, request, mode, pc, language, patterns, files, reads,
                   results, stats, output, clock>>

AppendFunctionEdge ==
    /\ InLoop
    /\ stage = "function_edge"
    /\ Take(append_function_edge(nodes, edges, files[idx], pos), files[idx])
    /\ UNCHANGED <<tree, request, mode, pc, language, patterns, files, reads,
                   results, stats, output, clock>>

ExtractImports ==
    /\ InLoop
    /\ stage = "imports"
    /\ Take(extract_imports(nodes, edges, files[idx]), files[idx])
    /\ UNCHANGED <<tree, request, mode, pc, language, patterns, files, reads,
                   results, stats, output, clock>>

\* The loop is over: generate returns the dictionary.
Return ==
    /\ pc = "loop"
    /\ idx > Len(files)
    /\ results' = Append(results, graph_dict(nodes, edges, language, files, clock))
    /\ clock' = clock + 1
    /\ pc' = "returned"
    /\ UNCHANGED <<tree, request, mode, language, nodes, edges, patterns, files,
                   idx, stage, pos, reads, stderr, stats, output>>

GetStatistics ==
    /\ pc = "returned"
    /\ stats' = <<get_statistics(nodes, edges)>>
    /\ pc' = "stats"
    /\ UNCHANGED <<tree, request, mode, language, nodes, edges, patterns, files,
                   idx, stage, pos, reads, stderr, results, output, clock>>

\* main writes the graph it got to .ai-gov/code-graph.json.
SaveGraph ==
    /\ pc = "stats"
    /\ mode = "main"
    /\ output' = Append(output, results[Len(results)])
    /\ pc' = "saved"
    /\ UNCHANGED <<tree, request, mode, language, nodes, edges, patterns, files,
                   idx, stage, pos, reads, stderr, results, stats, clock>>

\* The caller calls generate again, same patterns, on the same generator.
GenerateAgain ==
    /\ pc \in {"returned", "stats"}
    /\ mode = "api"
    /\ Len(results) < MaxCalls
    /\ BeginGenerate(patterns)
    /\ UNCHANGED <<tree, request, mode, language, nodes, edges, reads, stderr,
                   results, stats, output, clock>>

Next ==
    \/ MainUsage
    \/ MainUnsupported
    \/ MainRun
    \/ ApiGenerate
    \/ ReadParse
    \/ ExtractClass
    \/ AppendClassEdge
    \/ ExtractFunction
    \/ AppendFunctionEdge
    \/ ExtractImports
    \/ Return
    \/ GetStatistics
    \/ SaveGraph

Spec == Init /\ [][Next]_vars

NextRerun == Next \/ GenerateAgain

SpecRerun == Init /\ [][NextRerun]_vars

(***************************************************************************)
(* Properties                                                              *)
(***************************************************************************)
\* The graph the last generate call returned.
Graph == results[Len(results)]

Ids(ns) == {ns[k].id : k \in 1..Len(ns)}

\* The nodes of a graph that came from the file at path p, and the edges
\* that leave them.
NodesOf(g, p) == SelectSeq(g.nodes, LAMBDA n : n.path = p)

EdgesOf(g, p) == SelectSeq(g.edges, LAMBDA e : e.source \in Ids(NodesOf(g, p)))

\* C1: in the returned graph every class or function node of a file F is the
\* target of exactly one contains edge whose source is F's file node.
C1_ContainmentExactlyOne ==
    results # << >> =>
        \A k \in 1..Len(Graph.nodes) :
            Graph.nodes[k].type \in {"class", "function"} =>
                Cardinality(
                    {e \in 1..Len(Graph.edges) :
                        /\ Graph.edges[e].type = "contains"
                        /\ Graph.edges[e].target = Graph.nodes[k].id
                        /\ \E j \in 1..Len(Graph.nodes) :
                            /\ Graph.nodes[j].type = "file"
                            /\ Graph.nodes[j].path = Graph.nodes[k].path
                            /\ Graph.nodes[j].id = Graph.edges[e].source}) = 1

\* C2: in every state of the Graph Builder, also after a file raised
\* part-way, both ends of every edge are ids of nodes of the node list.
C2_NoDanglingEdges ==
    \A e \in 1..Len(edges) :
        /\ edges[e].source \in Ids(nodes)
        /\ edges[e].target \in Ids(nodes)

\* A file raised after some of its declarations were appended.
C2_Witness ==
    /\ \E k \in 1..Len(stderr), e \in 1..Len(edges), n \in 1..Len(nodes) :
        /\ nodes[n].path = stderr[k]
        /\ edges[e].target = nodes[n].id
    /\ stage = "class_edge"

\* C3: a file whose processing raised is reported, the other files are
\* still read, and the returned graph holds no node of that file and no
\* edge that touches one.
C3_FailedFileExcluded ==
    results # << >> =>
        /\ reads = Len(files)
        /\ \A k \in 1..Len(stderr) :
            /\ NodesOf(Graph, stderr[k]) = << >>
            /\ \A e \in 1..Len(Graph.edges) :
                /\ Graph.edges[e].source \notin Ids(NodesOf(Graph, stderr[k]))
                /\ Graph.edges[e].target \notin Ids(NodesOf(Graph, stderr[k]))

\* The try block of generate for one file, run to its end.
RECURSIVE RunFile(_, _, _, _, _, _)
RunFile(ns, es, lang, f, st, i) ==
    LET r == CASE st = "read" -> read_parse(ns, es, lang, f)
               [] st = "classes" -> extract_class(ns, es, f, i)
               [] st = "class_edge" -> append_class_edge(ns, es, f, i)
               [] st = "functions" -> extract_function(ns, es, f, i)
               [] st = "function_edge" -> append_function_edge(ns, es, f, i)
               [] st = "imports" -> extract_imports(ns, es, f)
    IN  IF r.status = "go" THEN RunFile(r.nodes, r.edges, lang, f, r.stage, r.pos)
        ELSE r

\* The lists after generate's loop over the first k files of fs, from an
\* empty graph.
RECURSIVE RunFiles(_, _, _)
RunFiles(lang, fs, k) ==
    IF k = 0 THEN [nodes |-> << >>, edges |-> << >>]
    ELSE LET g == RunFiles(lang, fs, k - 1)
             r == RunFile(g.nodes, g.edges, lang, fs[k], "read", 0)
         IN  [nodes |-> r.nodes, edges |-> r.edges]

\* What the same generate call yields on a tree that holds file a alone.
Alone(a) ==
    LET fs == SelectSeq(files, LAMBDA f : f.parts = a.parts)
    IN  RunFiles(language, fs, Len(fs))

\* C4: the nodes and edges the returned graph holds for a file of the batch
\* are those of that file processed alone, whatever the other files of the
\* batch are, whether they raise, and wherever they stand in the batch.
C4_PerFileIndependence ==
    results # << >> =>
        \A k \in 1..Len(files) :
            /\ NodesOf(Graph, files[k].parts) = Alone(files[k]).nodes
            /\ EdgesOf(Graph, files[k].parts) = Alone(files[k]).edges

\* A file with imports processed after another file that raised part-way.
C4_Witness ==
    /\ results # << >>
    /\ \E i \in 1..Len(files), j \in 1..Len(files) :
        /\ i < j
        /\ files[i].parts # files[j].parts
        /\ \E k \in 1..Len(stderr) : stderr[k] = files[i].parts
        /\ NodesOf(Graph, files[i].parts) # << >>
        /\ \E n \in 1..Len(Graph.nodes) :
            /\ Graph.nodes[n].path = files[j].parts
            /\ "imports" \in Graph.nodes[n].metadata.keys

\* C5: no two entries of the returned node list have the same id.
C5_UniqueIds ==
    results # << >> =>
        \A i \in 1..Len(Graph.nodes), j \in 1..Len(Graph.nodes) :
            i # j => Graph.nodes[i].id # Graph.nodes[j].id

\* C6: two generate calls with the same patterns over the unchanged tree
\* return the same nodes, the same edges and the same counts.
C6_SameResultTwice ==
    Len(results) >= 2 =>
        /\ results[2].nodes = results[1].nodes
        /\ results[2].edges = results[1].edges
        /\ results[2].metadata.files_processed = results[1].metadata.files_processed
        /\ results[2].metadata.node_count = results[1].metadata.node_count
        /\ results[2].metadata.edge_count = results[1].metadata.edge_count

\* The ids that touch an edge, how many edges touch each, and where each
\* stands in the node list.
Connected == {edges[k].source : k \in 1..Len(edges)} \cup
             {edges[k].target : k \in 1..Len(edges)}

Degree(id) ==
    Cardinality({k \in 1..Len(edges) : edges[k].source = id}) +
    Cardinality({k \in 1..Len(edges) : edges[k].target = id})

Discovery(id) ==
    CHOOSE k \in 1..Len(nodes) :
        nodes[k].id = id /\ \A j \in 1..(k - 1) : nodes[j].id # id

\* The place of id among the connected ids: more edges first, then earlier
\* discovery first.
Rank(id) ==
    1 + Cardinality({o \in Connected :
                        \/ Degree(o) > Degree(id)
                        \/ Degree(o) = Degree(id) /\ Discovery(o) < Discovery(id)})

\* C7: top_connected holds the connected nodes by edge count descending,
\* ties by discovery order, cut to 5, each with the name, kind and path of
\* its node; for an empty graph it and both histograms are empty.
C7_TopConnected ==
    stats # << >> =>
        LET tc == stats[1].top_connected
        IN  /\ Len(tc) = Min(5, Cardinality(Connected))
            /\ \A id \in Connected :
                Rank(id) <= 5 =>
                    tc[Rank(id)] = [name |-> nodes[Discovery(id)].name,
                                    type |-> nodes[Discovery(id)].type,
                                    path |-> nodes[Discovery(id)].path,
                                    connections |-> Degree(id)]
            /\ nodes = << >> =>
                /\ tc = << >>
                /\ DOMAIN stats[1].node_types = {}
                /\ DOMAIN stats[1].edge_types = {}

\* More than 5 connected nodes, and a later node with more edges than an
\* earlier one.
C7_Witness ==
    /\ stats # << >>
    /\ Cardinality(Connected) > 5
    /\ \E a \in Connected, b \in Connected :
        Discovery(a) < Discovery(b) /\ Degree(a) < Degree(b)
    /\ \E a \in Connected, b \in Connected : a # b /\ Degree(a) = Degree(b)

\* The languages main has patterns for.
Registered == {"python", "javascript", "typescript", "go", "rust", "java"}

C9_AppendOnly ==
    [][ /\ Len(nodes') >= Len(nodes)
        /\ Len(edges') >= Len(edges)
        /\ \A k \in 1..Len(edges) : edges'[k] = edges[k]
        /\ \A k \in 1..Len(nodes) :
            \/ nodes'[k] = nodes[k]
            \/ /\ nodes[k].type = "file"
               /\ \E e \in 1..Len(tree) :
                    /\ tree[e].parts = nodes[k].path
                    /\ nodes'[k] =
                        [nodes[k] EXCEPT !.metadata =
                            [keys |-> @.keys \cup {"imports"},
                             language |-> @.language,
                             imports |-> collect_imports(tree[e])]] ]_vars

\* A file node that gained its imports after other nodes were appended.
C9_Witness ==
    \E k \in 1..Len(nodes) :
        /\ "imports" \in nodes[k].metadata.keys
        /\ nodes[k].metadata.language = "python"
        /\ k < Len(nodes)
        /\ stats # << >>

\* The files pattern number k and the later patterns match, counted per
\* pattern.
RECURSIVE MatchCount(_)
MatchCount(k) ==
    IF k > Len(patterns) THEN 0
    ELSE Cardinality({e \in 1..Len(tree) :
                        /\ tree[e].is_file
                        /\ Matches(patterns[k], tree[e])
                        /\ \A i \in 1..Len(tree[e].parts) :
                            tree[e].parts[i] \notin exclude_patterns})
         + MatchCount(k + 1)

FileNodeCount(g) == Len(SelectSeq(g.nodes, LAMBDA n : n.type = "file"))

\* C10: files_processed is the number of paths find_files returned, once
\* per matching pattern and with the files that raised; node_count and
\* edge_count are the lengths of the returned lists.
C10_Counts ==
    results # << >> =>
        /\ Graph.metadata.files_processed = MatchCount(1)
        /\ Graph.metadata.node_count = Len(Graph.nodes)
        /\ Graph.metadata.edge_count = Len(Graph.edges)

\* A file matched twice and an unreadable file: more files processed than
\* file nodes.
C10_Witness ==
    /\ results # << >>
    /\ stderr # << >>
    /\ \E i \in 1..Len(files), j \in 1..Len(files) :
        i # j /\ files[i].parts = files[j].parts
    /\ Graph.metadata.files_processed > FileNodeCount(Graph)
    /\ FileNodeCount(Graph) > 0

====
